---- MODULE Spec2Model ----
(***************************************************************************)
(* A model of numpyro/infer/util.py (log_density, potential_energy,        *)
(* find_valid_initial_params, initialize_model, predictive) and of         *)
(* numpyro/distributions/censored.py (RightCensoredDistribution).          *)
(*                                                                         *)
(* Floating point values are modelled as extended integers (a finite       *)
(* integer, +inf, -inf or nan); arrays as sequences; PRNG keys as paths in *)
(* the split tree (a root key followed by the halves taken).               *)
(***************************************************************************)
EXTENDS Integers, Sequences, FiniteSets, TLC

VARIABLES
    pe,      \* one evaluation of potential_energy (its locals and position)
    call,    \* the running call of initialize_model / find_valid_initial_params
    ghost,   \* history of the running call: body_fn evaluations, keys consumed
    rets,    \* what each finished call returned (or that it raised)
    pred,    \* one call of predictive
    cens     \* one RightCensoredDistribution: construction and log_prob

vars == <<pe, call, ghost, rets, pred, cens>>

Idle == [pc |-> "idle"]

-----------------------------------------------------------------------------
(* Bounds of the model *)

\* unconstrained draws range over 0..UMax
UMax == 2
\* arrays hold at most MaxShape elements
MaxShape == 2
\* a key batch holds at most MaxChains keys
MaxChains == 2

-----------------------------------------------------------------------------
(* Floats: finite values, the infinities and nan *)

Fin(n) == [k |-> "fin", v |-> n]
PInf == [k |-> "pinf", v |-> 0]
NInf == [k |-> "ninf", v |-> 0]
NaN == [k |-> "nan", v |-> 0]

IsFinite(a) == a.k = "fin"

ExtNeg(a) ==
    CASE a.k = "fin" -> Fin(0 - a.v)
      [] a.k = "pinf" -> NInf
      [] a.k = "ninf" -> PInf
      [] OTHER -> NaN

ExtAdd(a, b) ==
    CASE a.k = "nan" \/ b.k = "nan" -> NaN
      [] a.k = "fin" /\ b.k = "fin" -> Fin(a.v + b.v)
      [] a.k = "fin" -> b
      [] b.k = "fin" -> a
      [] a.k = b.k -> a
      [] OTHER -> NaN

\* s * a for a finite scale factor s
ExtScale(s, a) ==
    CASE a.k = "nan" -> NaN
      [] a.k = "fin" -> Fin(s * a.v)
      [] s = 0 -> NaN
      [] s > 0 -> a
      [] OTHER -> ExtNeg(a)

RECURSIVE ExtSumFrom(_, _)
ExtSumFrom(arr, i) ==
    IF i > Len(arr) THEN Fin(0) ELSE ExtAdd(arr[i], ExtSumFrom(arr, i + 1))

\* np.sum of an array of floats
ExtSum(arr) == ExtSumFrom(arr, 1)

RECURSIVE Pow2(_)
Pow2(n) == IF n = 0 THEN 1 ELSE 2 * Pow2(n - 1)

\* floor(log2(n)) for n >= 1
RECURSIVE ILog2(_)
ILog2(n) == IF n <= 1 THEN 0 ELSE 1 + ILog2(n \div 2)

-----------------------------------------------------------------------------
(* Transforms: biject_to(real) is the identity, biject_to(positive) the    *)
(* exponential (here in base 2, on the naturals).                          *)

\* biject_to(greater_than(1)) is ComposeTransform([ExpTransform(), AffineTransform(1, 1)]).
BijectTo(constraint) ==
    CASE constraint = "positive" -> "exp"
      [] constraint = "greater_than_1" -> "exp_affine"
      [] OTHER -> "identity"

\* isinstance(transform, ComposeTransform), transform.parts[0], and the
\* composition of transform.parts[1:]
IsCompose(t) == t = "exp_affine"
FirstPart(t) == IF t = "exp_affine" THEN "exp" ELSE t
RestParts(t) == IF t = "exp_affine" THEN "affine" ELSE "identity"

TApplyElem(t, u) ==
    CASE t = "exp" -> Pow2(u)
      [] t = "affine" -> u + 1
      [] t = "exp_affine" -> Pow2(u) + 1
      [] OTHER -> u

TInvElem(t, c) ==
    CASE t = "exp" -> CHOOSE e \in 0..(UMax + 4) : Pow2(e) = c
      [] t = "affine" -> c - 1
      [] t = "exp_affine" -> CHOOSE e \in 0..(UMax + 4) : Pow2(e) = c - 1
      [] OTHER -> c

TApply(t, u) == [j \in DOMAIN u |-> TApplyElem(t, u[j])]

TInv(t, c) == [j \in DOMAIN c |-> TInvElem(t, c[j])]

\* log|dy/dx| elementwise, y = t(x)
TLogAbsDetJacobian(t, x, y) ==
    [j \in DOMAIN x |-> IF t \in {"exp", "exp_affine"} THEN Fin(x[j]) ELSE Fin(0)]

-----------------------------------------------------------------------------
(* Distributions (log-probabilities in base-2 units):                      *)
(*   Normal(loc, 1), Exponential(1), Uniform(0, loc) and                   *)
(*   Pareto(scale = loc, alpha = 1); outside the support the log-          *)
(*   probability is -inf.                                                  *)

Support(dist) == IF dist = "Normal" THEN "real" ELSE "positive"

LogProbElem(dist, v, loc) ==
    CASE dist = "Normal" -> Fin(0 - (v - loc) * (v - loc))
      [] dist = "Exponential" -> Fin(0 - v)
      [] dist = "Uniform" -> IF 0 <= v /\ v <= loc /\ loc >= 1
                             THEN Fin(0 - ILog2(loc))
                             ELSE NInf
      [] OTHER -> IF v >= loc /\ loc >= 1
                  THEN Fin(ILog2(loc) - 2 * ILog2(v))
                  ELSE NInf

LogProb(dist, value, loc) ==
    [j \in DOMAIN value |-> LogProbElem(dist, value[j], loc)]

-----------------------------------------------------------------------------
(* Models and traces.  A model is the sequence of its sites; a site names  *)
(* the earlier site (parent) whose value is its distribution's location.   *)

Arr(n, v) == [j \in 1..n |-> v]

SampleSite(name, dist, parent, shape) ==
    [name |-> name, type |-> "sample", is_observed |-> FALSE, dist |-> dist,
     parent |-> parent, obs |-> Arr(shape, 0), has_scale |-> FALSE, scale |-> 1,
     dtransform |-> "none", constraint |-> "none"]

ObservedSite(name, dist, parent, obs) ==
    [SampleSite(name, dist, parent, Len(obs)) EXCEPT !.is_observed = TRUE, !.obs = obs]

ParamSite(name, constraint, init) ==
    [name |-> name, type |-> "param", is_observed |-> FALSE, dist |-> "none",
     parent |-> 0, obs |-> init, has_scale |-> FALSE, scale |-> 1,
     dtransform |-> "none", constraint |-> constraint]

PlateSite(name, size) ==
    [name |-> name, type |-> "plate", is_observed |-> FALSE, dist |-> "none",
     parent |-> 0, obs |-> <<size>>, has_scale |-> FALSE, scale |-> 1,
     dtransform |-> "none", constraint |-> "none"]

Scaled(site, s) == [site EXCEPT !.has_scale = TRUE, !.scale = s]

\* a TransformedDistribution: dist is its base_dist, t its transform
Transformed(site, t) == [site EXCEPT !.dtransform = t]

Names(m) == {m[i].name : i \in DOMAIN m}

IndexOf(m, name) == CHOOSE i \in DOMAIN m : m[i].name = name

\* One site of the trace of m.  sub: the substituted values by name (base values
\* when base); draws: the values the seeded prior gives the remaining latent
\* sites; prev: the trace of the earlier sites; popped: the base values come
\* from an initialization strategy, which has taken 'constraint' out of a param
\* site's kwargs before the substitute handler looks for it.  The handler takes
\* it out itself when it substitutes a base value, and the trace records the
\* site with the kwargs mapping so left.
TraceSite(site, sub, base, draws, prev, popped) ==
    LET loc == IF site.parent = 0 THEN 0 ELSE prev[site.parent].value[1]
        latent == site.type = "sample" /\ ~site.is_observed
        given == site.name \in DOMAIN sub
        inner == IF given THEN sub[site.name] ELSE draws[site.name]
        viaBase == latent /\ site.dtransform # "none" /\ (base \/ ~given)
        value == CASE site.type = "param" /\ given /\ base ->
                        IF popped THEN sub[site.name]
                        ELSE TApply(RestParts(BijectTo(site.constraint)), sub[site.name])
                   [] site.type = "param" -> IF given THEN sub[site.name] ELSE site.obs
                   [] ~latent -> site.obs
                   [] viaBase -> TApply(site.dtransform, inner)
                   [] OTHER -> inner
    IN  [name |-> site.name, type |-> site.type, is_observed |-> site.is_observed,
         dist |-> site.dist, dtransform |-> site.dtransform, loc |-> loc,
         value |-> value,
         intermediates |-> IF viaBase THEN <<inner>> ELSE <<>>,
         has_scale |-> site.has_scale, scale |-> site.scale,
         kwargs |-> [constraint |-> IF site.type = "param" /\ ~(given /\ base)
                                    THEN site.constraint
                                    ELSE "none"]]

RECURSIVE TraceUpTo(_, _, _, _, _, _)
TraceUpTo(m, sub, base, draws, n, popped) ==
    IF n = 0 THEN <<>>
    ELSE LET Extend(prev) ==
                 Append(prev, TraceSite(m[n], sub, base, draws, prev, popped))
         IN  Extend(TraceUpTo(m, sub, base, draws, n - 1, popped))

\* trace(model).get_trace(...)
GetTrace(m, sub, base, draws) == TraceUpTo(m, sub, base, draws, Len(m), FALSE)

\* trace(substitute(model, substitute_fn=block(seed(init_strategy, subkey)))):
\* values are the strategy's base values; unless skip_param, _init_to_uniform has
\* popped 'constraint' from the kwargs of the param sites
GetStrategyTrace(m, values, skip_param) ==
    TraceUpTo(m, values, TRUE, <<>>, Len(m), ~skip_param)

NoValues == <<>>

-----------------------------------------------------------------------------
(* log_density *)

\* site['fn'].log_prob(value[, intermediates]) of a trace site
FnLogProb(site) ==
    IF site.dtransform = "none"
    THEN LogProb(site.dist, site.value, site.loc)
    ELSE LET x == IF site.intermediates # <<>> THEN site.intermediates[1]
                  ELSE TInv(site.dtransform, site.value)
             lp == LogProb(site.dist, x, site.loc)
             ld == TLogAbsDetJacobian(site.dtransform, x, site.value)
         IN  [j \in DOMAIN x |-> ExtAdd(lp[j], ExtNeg(ld[j]))]

\* the loop over model_trace.values(), from site i on, log_joint so far in acc
RECURSIVE LogJointLoop(_, _, _, _)
LogJointLoop(tr, skip, i, acc) ==
    IF i > Len(tr) THEN acc
    ELSE LET site == tr[i]
             lp == IF site.intermediates # <<>>
                   THEN IF skip
                        THEN LogProb(site.dist, site.intermediates[1], site.loc)
                        ELSE FnLogProb(site)
                   ELSE FnLogProb(site)
             log_prob == ExtSum(lp)
             scaled == IF site.has_scale THEN ExtScale(site.scale, log_prob)
                       ELSE log_prob
         IN  IF site.type = "sample"
             THEN LogJointLoop(tr, skip, i + 1, ExtAdd(acc, scaled))
             ELSE LogJointLoop(tr, skip, i + 1, acc)

\* log_density(model, model_args, model_kwargs, params, skip_dist_transforms):
\* the joint log density and the model trace
log_density(m, params, skip_dist_transforms) ==
    LET Joint(model_trace) ==
            [log_joint |-> LogJointLoop(model_trace, skip_dist_transforms, 1, Fin(0)),
             model_trace |-> model_trace]
    IN  Joint(GetTrace(m, params, skip_dist_transforms, NoValues))

\* transform_fn(transforms, params, invert)
transform_fn(transforms, params, invert) ==
    [k \in DOMAIN params |->
        IF k \in DOMAIN transforms
        THEN IF invert THEN TInv(transforms[k], params[k])
             ELSE TApply(transforms[k], params[k])
        ELSE params[k]]

-----------------------------------------------------------------------------
(* The resolver: per latent site, its base value and unconstraining transform *)

\* v['kwargs'].pop('constraint', real)
PopConstraint(kwargs) == IF kwargs.constraint = "none" THEN "real" ELSE kwargs.constraint

IsLatent(site) == site.type = "sample" /\ ~site.is_observed

\* the sites the loop gives an entry: latent sample sites, and param sites
\* when with_params
Resolved(tr, with_params) ==
    {i \in DOMAIN tr : IsLatent(tr[i]) \/ (tr[i].type = "param" /\ with_params)}

ResolvedTransform(site) ==
    IF site.type = "sample"
    THEN BijectTo(Support(site.dist))
    ELSE FirstPart(BijectTo(PopConstraint(site.kwargs)))

ResolvedValue(site) ==
    IF site.type = "sample"
    THEN IF site.intermediates # <<>> THEN site.intermediates[1] ELSE site.value
    ELSE LET transform == BijectTo(PopConstraint(site.kwargs))
         IN  IF IsCompose(transform)
             THEN TApply(FirstPart(transform), TInv(transform, site.value))
             ELSE site.value

SiteNamed(tr, name) == tr[CHOOSE i \in DOMAIN tr : tr[i].name = name]

\* the loop of initialize_model over the prototype trace
InitResolve(tr) ==
    LET names == {tr[i].name : i \in Resolved(tr, TRUE)}
    IN  [constrained_values |-> [k \in names |-> ResolvedValue(SiteNamed(tr, k))],
         inv_transforms |-> [k \in names |-> ResolvedTransform(SiteNamed(tr, k))],
         has_transformed_dist |->
             \E k \in names :
                 \/ SiteNamed(tr, k).type = "sample"
                    /\ SiteNamed(tr, k).intermediates # <<>>
                 \/ SiteNamed(tr, k).type = "param"
                    /\ IsCompose(BijectTo(PopConstraint(SiteNamed(tr, k).kwargs)))]

\* the loop of body_fn over the trace of the substituted model
BodyResolve(tr, param_as_improper) ==
    LET names == {tr[i].name : i \in Resolved(tr, param_as_improper)}
    IN  [constrained_values |-> [k \in names |-> ResolvedValue(SiteNamed(tr, k))],
         inv_transforms |-> [k \in names |-> ResolvedTransform(SiteNamed(tr, k))]]

-----------------------------------------------------------------------------
(* potential_energy *)

\* the names of inv_transforms in the order of the trace
RECURSIVE ItemsFrom(_, _, _)
ItemsFrom(tr, inv_transforms, i) ==
    IF i > Len(tr) THEN <<>>
    ELSE IF tr[i].name \in DOMAIN inv_transforms
         THEN <<tr[i].name>> \o ItemsFrom(tr, inv_transforms, i + 1)
         ELSE ItemsFrom(tr, inv_transforms, i + 1)

\* Mutant of JacobianTerm: the site's scale is not applied to the Jacobian term.
JacobianTermUnscaled(t, site, x, y) == ExtSum(TLogAbsDetJacobian(t, x, y))

\* one turn of the loop over inv_transforms.items(): the site's term
JacobianTerm(t, site, x, y) ==
    LET t_log_det == ExtSum(TLogAbsDetJacobian(t, x, y))
    IN  IF site.has_scale THEN ExtScale(site.scale, t_log_det) ELSE t_log_det

RECURSIVE JacobianLoop(_, _, _, _, _, _)
JacobianLoop(items, inv_transforms, tr, params, params_constrained, log_joint) ==
    IF items = <<>> THEN log_joint
    ELSE LET name == Head(items)
             term == JacobianTerm(inv_transforms[name], SiteNamed(tr, name),
                                  params[name], params_constrained[name])
         IN  JacobianLoop(Tail(items), inv_transforms, tr, params,
                          params_constrained, ExtAdd(log_joint, term))

potential_energy(m, inv_transforms, params) ==
    LET Jacobians(params_constrained, ld) ==
            JacobianLoop(ItemsFrom(ld.model_trace, inv_transforms, 1), inv_transforms,
                         ld.model_trace, params, params_constrained, ld.log_joint)
        Energy(params_constrained) ==
            ExtNeg(Jacobians(params_constrained,
                             log_density(m, params_constrained, TRUE)))
    IN  Energy(transform_fn(inv_transforms, params, FALSE))

-----------------------------------------------------------------------------
(* Input models of potential_energy *)

WithScale(site, s) == IF s = 0 THEN site ELSE Scaled(site, s)

\* x ~ Normal(0, 1) (a vector); obs ~ Normal(x[0], 1)
NormalModel(s) ==
    << WithScale(SampleSite("x", "Normal", 0, MaxShape), s),
       ObservedSite("obs", "Normal", 1, Arr(MaxShape, 1)) >>

\* with plate("N"): p = param("p", constraint=positive); x ~ Exponential(1);
\* obs ~ Pareto(scale=x, alpha=1)
ParetoModel(s, obs) ==
    << PlateSite("N", 2),
       WithScale(ParamSite("p", "positive", <<2>>), s),
       SampleSite("x", "Exponential", 0, 1),
       WithScale(ObservedSite("obs", "Pareto", 3, obs), s) >>

\* z ~ TransformedDistribution(Normal(0, 1), ExpTransform());
\* q = param("q", constraint=greater_than(1)); y ~ Normal(z, 1)
LogNormalModel(s) ==
    << WithScale(Transformed(SampleSite("z", "Normal", 0, 1), "exp"), s),
       ParamSite("q", "greater_than_1", <<3>>),
       ObservedSite("y", "Normal", 1, <<1>>) >>

\* the values of has-scale sites' scale that are tried (0: no scale)
Scales == {0, 2, -1}

Shape(site) == Len(site.obs)

\* arrays of the site's shape over the unconstrained range
UArrays(n) == [1..n -> 0..UMax]

\* some value in every support, for reading a model's structure off a trace
UnitDraws(m) == [k \in Names(m) |-> Arr(Shape(m[IndexOf(m, k)]), 1)]

\* the inverse-transform mapping initialize_model builds for m
TransformsOf(m) == InitResolve(GetTrace(m, NoValues, FALSE, UnitDraws(m))).inv_transforms

\* every unconstrained parameter vector for the names of inv_transforms
ParamVectors(m, inv_transforms) ==
    LET S == DOMAIN inv_transforms
        W == UNION {UArrays(Shape(m[i])) : i \in DOMAIN m}
    IN  {f \in [S -> W] : \A k \in S : Len(f[k]) = Shape(m[IndexOf(m, k)])}

-----------------------------------------------------------------------------
(* Specification SpecPE: potential_energy applied to every input *)

PEModels ==
    {NormalModel(s) : s \in Scales} \cup {ParetoModel(s, <<2, 4>>) : s \in Scales}
        \cup {LogNormalModel(s) : s \in Scales}

InitPE ==
    /\ \E m \in PEModels :
         \E params \in ParamVectors(m, TransformsOf(m)) :
            pe = [pc |-> "call", m |-> m, inv_transforms |-> TransformsOf(m),
                  params |-> params, result |-> NaN]
    /\ call = Idle /\ ghost = Idle /\ rets = <<>> /\ pred = Idle /\ cens = Idle

PotentialEnergy ==
    /\ pe.pc = "call"
    /\ pe' = [pe EXCEPT !.pc = "done",
                        !.result = potential_energy(pe.m, pe.inv_transforms, pe.params)]
    /\ UNCHANGED <<call, ghost, rets, pred, cens>>

NextPE == PotentialEnergy

SpecPE == InitPE /\ [][NextPE]_vars

\* The sum of f over the finite set S of its domain
RECURSIVE SumOver(_, _)
SumOver(S, f) ==
    IF S = {} THEN Fin(0)
    ELSE LET x == CHOOSE x \in S : TRUE
         IN  ExtAdd(f[x], SumOver(S \ {x}, f))

\* The negated total of claim C4 for the call in pe
ExpectedEnergy ==
    LET T == pe.inv_transforms
        constrained == [k \in DOMAIN pe.params |->
                           IF k \in DOMAIN T THEN TApply(T[k], pe.params[k])
                           ELSE pe.params[k]]
        At(site) == IF site.intermediates # <<>> THEN site.intermediates[1]
                    ELSE site.value
        Times(site, x) == IF site.has_scale THEN ExtScale(site.scale, x) ELSE x
        SiteTerm(site) == Times(site, ExtSum(LogProb(site.dist, At(site), site.loc)))
        JacTerm(site, k) ==
            Times(site, ExtSum(TLogAbsDetJacobian(T[k], pe.params[k], constrained[k])))
        Total(tr) ==
            ExtAdd(SumOver({i \in DOMAIN tr : tr[i].type = "sample"},
                           [i \in DOMAIN tr |-> SiteTerm(tr[i])]),
                   SumOver(DOMAIN T, [k \in DOMAIN T |-> JacTerm(SiteNamed(tr, k), k)]))
    IN  ExtNeg(Total(GetTrace(pe.m, constrained, TRUE, NoValues)))

\* C4: potential_energy returns the negation of (a) the sum over the sample
\* sites only of scale x summed log-probability at the constrained values
\* (base values for transformed distributions), plus (b) for every site of
\* inv_transforms its summed log-abs-det-Jacobian, times the site's scale when
\* it has one.
C4_PotentialEnergyIsNegatedTotal ==
    pe.pc = "done" => pe.result = ExpectedEnergy

\* C4 witness: a finite energy of a model with a scaled param site whose
\* Jacobian term is not zero, and with a plate site that contributes nothing
C4_Witness ==
    /\ pe.pc = "done"
    /\ IsFinite(pe.result)
    /\ \E i \in DOMAIN pe.m :
          /\ pe.m[i].type = "param" /\ pe.m[i].has_scale
          /\ pe.inv_transforms[pe.m[i].name] = "exp"
          /\ pe.params[pe.m[i].name][1] > 0
    /\ \E i \in DOMAIN pe.m : pe.m[i].type = "plate"

-----------------------------------------------------------------------------
(* PRNG keys.  A key is a place in the tree random.split spans below a    *)
(* root key: the path of halves taken, first half 0 and second half 1,     *)
(* written as the number of 0s before each 1 (runs) and after the last     *)
(* (tail).                                                                 *)

RootKey(r) == [root |-> r, runs |-> <<>>, tail |-> 0]

\* random.split(key): the two halves, in the order the code unpacks them
Split(key) ==
    << [key EXCEPT !.tail = @ + 1],
       [key EXCEPT !.runs = Append(@, key.tail), !.tail = 0] >>

RECURSIVE SumSeq(_, _)
SumSeq(q, i) == IF i > Len(q) THEN 0 ELSE q[i] + SumSeq(q, i + 1)

\* the random stream of a key, as a number
HashKey(key) == key.root * (1 + SumSeq(key.runs, 1) + 2 * Len(key.runs) + key.tail)

\* an array of n draws from Uniform(-radius, radius), here 0..radius, under key
UniformDraw(key, n, radius) ==
    [j \in 1..n |-> (HashKey(key) * (2 * j - 1)) % (radius + 1)]

\* the values of the latent sites of m in a run seeded with key (prior draws)
SeededDraws(m, key) ==
    [k \in Names(m) |->
        LET site == m[IndexOf(m, k)]
        IN  TApply(BijectTo(Support(site.dist)), UniformDraw(key, Shape(site), UMax))]

-----------------------------------------------------------------------------
(* Initialization strategy: init_to_uniform(radius) *)

\* _init_to_uniform(site, radius, skip_param) for the sites it gives a value
\* (None for the others): the site's base value
InitToUniformSites(m, skip_param) ==
    {i \in DOMAIN m : \/ m[i].type = "sample" /\ ~m[i].is_observed
                      \/ m[i].type = "param" /\ ~skip_param}

InitToUniform(site, key, radius) ==
    LET unconstrained_value == UniformDraw(key, Shape(site), radius)
        base_transform ==
            IF site.type = "sample"
            THEN BijectTo(Support(site.dist))
            ELSE FirstPart(BijectTo(PopConstraint([constraint |-> site.constraint])))
    IN  TApply(base_transform, unconstrained_value)

\* substitute(model, substitute_fn=block(seed(init_strategy, subkey)))
StrategyValues(m, subkey, radius, skip_param) ==
    LET S == InitToUniformSites(m, skip_param)
    IN  [k \in {m[i].name : i \in S} |-> InitToUniform(m[IndexOf(m, k)], subkey, radius)]

-----------------------------------------------------------------------------
(* find_valid_initial_params *)

\* the loop's cap
MaxIter == 100

\* the elements of a parameter vector, as ravel_pytree lists them
Elements(params) == UNION {{<<k, j>> : j \in DOMAIN params[k]} : k \in DOMAIN params}

\* value_and_grad(potential_fn)(params): the energy, and per element of params
\* the change of the energy with it
ValueAndGrad(m, inv_transforms, params) ==
    LET Moved(e) == IF e = <<>> THEN params ELSE [params EXCEPT ![e[1]][e[2]] = @ + 1]
        Diff(energy) ==
            [pe |-> energy[<<>>],
             z_grad |-> [e \in Elements(params) |->
                            ExtAdd(energy[e], ExtNeg(energy[<<>>]))]]
    IN  Diff([e \in Elements(params) \cup {<<>>} |->
                 potential_energy(m, inv_transforms, Moved(e))])

\* is_valid = np.isfinite(pe) & np.all(np.isfinite(z_grad))
IsValid(vg) == IsFinite(vg.pe) /\ \A e \in DOMAIN vg.z_grad : IsFinite(vg.z_grad[e])

IsValidAt(m, inv_transforms, params) == IsValid(ValueAndGrad(m, inv_transforms, params))

\* Mutant of cond_fn: the cap is tested with <= instead of <.
cond_fn_inclusive(state) == state.i <= MaxIter /\ ~state.is_valid

\* cond_fn(state)
cond_fn(state) == state.i < MaxIter /\ ~state.is_valid

\* Mutant of CarriedKey: the carried key is not replaced.
CarriedKeyStale(key) == key

\* key, subkey = random.split(key): the carried key and the sub-key
CarriedKey(key) == Split(key)[1]
SubKey(key) == Split(key)[2]

\* body_fn(state) up to its resolver loop: constrained_values, inv_transforms
body_fn_resolved(state, m, radius, param_as_improper) ==
    LET values == StrategyValues(m, SubKey(state.key), radius, ~param_as_improper)
    IN  BodyResolve(GetStrategyTrace(m, values, ~param_as_improper), param_as_improper)

\* body_fn(state)
body_fn(state, m, radius, param_as_improper) ==
    LET Evaluate(inv_transforms, params) ==
            [i |-> state.i + 1, key |-> CarriedKey(state.key), params |-> params,
             is_valid |-> IsValidAt(m, inv_transforms, params)]
        Invert(r) ==
            Evaluate(r.inv_transforms,
                     transform_fn(r.inv_transforms, r.constrained_values, TRUE))
    IN  Invert(body_fn_resolved(state, m, radius, param_as_improper))

\* Mutant of PrototypeState: the prototype is taken to be valid.
PrototypeStateValid(rng_key, prototype_params) ==
    [i |-> 0, key |-> rng_key, params |-> prototype_params, is_valid |-> TRUE]

\* init_state when prototype_params is given
PrototypeState(rng_key, prototype_params) ==
    [i |-> 0, key |-> rng_key, params |-> prototype_params, is_valid |-> FALSE]

\* the state handed to body_fn for the first trial when it is not
FirstTrialState(rng_key) ==
    [i |-> 0, key |-> rng_key, params |-> <<>>, is_valid |-> FALSE]

-----------------------------------------------------------------------------
(* Specification SpecInit: calls of initialize_model and of                *)
(* find_valid_initial_params.  A call of initialize_model with a key batch *)
(* is followed by the same call with the batch permuted.                   *)

\* the root keys the callers hold are RootKey(1) .. RootKey(NumRoots)
NumRoots == 3

\* the keys a caller may pass: root keys, and the two halves of a split of one
InputKeySeq ==
    [i \in 1..NumRoots |-> RootKey(i)] \o <<Split(RootKey(1))[1], Split(RootKey(1))[2]>>

\* key batches, each listed once (in the order of InputKeySeq)
Batches ==
    LET K == Len(InputKeySeq)
        Idx == UNION {[1..n -> 1..K] : n \in 1..MaxChains}
    IN  {[i \in DOMAIN s |-> InputKeySeq[s[i]]] :
            s \in {s \in Idx : \A i, j \in DOMAIN s : i < j => s[i] < s[j]}}

Perms(n) == {p \in [1..n -> 1..n] : \A i, j \in 1..n : p[i] = p[j] => i = j}

\* x ~ Normal(0, 1); obs ~ Normal(x, 1): every candidate is valid
SearchNormal ==
    << SampleSite("x", "Normal", 0, 1), ObservedSite("obs", "Normal", 1, <<1>>) >>

\* p = param("p"); x ~ Exponential(1); obs ~ Pareto(x, 1), obs = 2:
\* the energy is finite while x <= 2, its gradient while the next x is
SearchPareto ==
    << PlateSite("N", 2), ParamSite("p", "none", <<2>>),
       SampleSite("x", "Exponential", 0, 1), ObservedSite("obs", "Pareto", 3, <<2>>) >>

\* x ~ Exponential(1); obs ~ Uniform(0, x), obs = 2: valid when x >= 2
SearchUniform ==
    << SampleSite("x", "Exponential", 0, 1), ObservedSite("obs", "Uniform", 1, <<2>>) >>

SearchModels == {SearchNormal, SearchPareto, SearchUniform}

\* init_to_uniform(radius) and init_to_feasible() = init_to_uniform(radius=0)
Radii == {0, UMax}

NoState == [i |-> 0, key |-> RootKey(0), params |-> <<>>, is_valid |-> FALSE]

NewCall(fn, m, radius, traced, batched, keys, perm, has_prototype, param_as_improper) ==
    [fn |-> fn, pc |-> "start", run |-> 1, m |-> m, radius |-> radius,
     traced |-> traced, batched |-> batched, rng_key |-> keys, perm |-> perm,
     has_prototype |-> has_prototype, param_as_improper |-> param_as_improper,
     prototype_params |-> <<>>, inv_transforms |-> <<>>,
     has_transformed_dist |-> FALSE, ch |-> 1, state |-> NoState,
     init_params |-> <<>>, is_valid |-> <<>>]

\* the history of one search: the key it was handed, the number of body_fn
\* evaluations, the sub-keys they seeded the strategy with, whether each took the
\* two halves of a split of the carried key, whether one was made after the
\* search had to stop, the last candidate, and the inverse transforms the last
\* evaluation resolved
NewSearch(key) ==
    [key |-> key, n |-> 0, subkeys |-> {}, split_each |-> TRUE, after_stop |-> FALSE,
     last |-> [params |-> <<>>, is_valid |-> FALSE], inv_transforms |-> <<>>]

NewGhost == [pc |-> "run", proto_seed |-> <<>>, chains |-> <<>>]

InitInit ==
    /\ \E m \in SearchModels, radius \in Radii, traced \in BOOLEAN :
          \/ \E k \in 1..Len(InputKeySeq) :
                call = NewCall("initialize_model", m, radius, traced, FALSE,
                               <<InputKeySeq[k]>>, <<1>>, TRUE, TRUE)
          \/ \E keys \in Batches : \E perm \in Perms(Len(keys)) :
                call = NewCall("initialize_model", m, radius, traced, TRUE,
                               keys, perm, TRUE, TRUE)
          \/ \E k \in 1..Len(InputKeySeq), proto \in BOOLEAN, pai \in BOOLEAN :
                call = NewCall("find_valid_initial_params", m, radius, traced, FALSE,
                               <<InputKeySeq[k]>>, <<1>>, proto, pai)
    /\ ghost = NewGhost /\ rets = <<>>
    /\ pe = Idle /\ pred = Idle /\ cens = Idle

\* seed(model, rng_key if rng_key.ndim == 1 else rng_key[0])
PrototypeSeed(rng_key, batched) == rng_key[1]

\* initialize_model up to the definition of single_chain_init: the prototype
\* trace, the resolver, potential_fn and constrain_fun
InitializeModelTrace ==
    /\ call.pc = "start" /\ call.fn = "initialize_model"
    /\ \E seedkey \in {PrototypeSeed(call.rng_key, call.batched)} :
       \E model_trace \in {GetTrace(call.m, NoValues, FALSE,
                                    SeededDraws(call.m, seedkey))} :
       \E r \in {InitResolve(model_trace)} :
           /\ call' = [call EXCEPT
                  !.pc = "chain", !.ch = 1,
                  !.prototype_params =
                      transform_fn(r.inv_transforms, r.constrained_values, TRUE),
                  !.inv_transforms = r.inv_transforms,
                  !.has_transformed_dist = r.has_transformed_dist]
           /\ ghost' = [ghost EXCEPT !.proto_seed = seedkey]
    /\ UNCHANGED <<pe, rets, pred, cens>>

\* a direct call of find_valid_initial_params; a given prototype is some
\* parameter vector of the model
FindValidInitialParamsCall ==
    /\ call.pc = "start" /\ call.fn = "find_valid_initial_params"
    /\ \E r \in {BodyResolve(GetTrace(call.m, NoValues, FALSE, UnitDraws(call.m)),
                              call.param_as_improper)} :
           call' = [call EXCEPT
               !.pc = "chain", !.ch = 1,
               !.prototype_params =
                   IF call.has_prototype
                   THEN transform_fn(r.inv_transforms, r.constrained_values, TRUE)
                   ELSE <<>>]
    /\ UNCHANGED <<pe, ghost, rets, pred, cens>>

\* the history after one more evaluation of body_fn, from state to next
Evaluated(g, state, next) ==
    [g EXCEPT !.inv_transforms =
                  body_fn_resolved(state, call.m, call.radius,
                                   call.param_as_improper).inv_transforms,
              !.n = @ + 1,
              !.subkeys = @ \cup {SubKey(state.key)},
              !.split_each = @ /\ <<next.key, SubKey(state.key)>> = Split(state.key),
              !.after_stop = @ \/ g.n >= MaxIter \/ g.last.is_valid,
              !.last = [params |-> next.params, is_valid |-> next.is_valid]]

\* a search returns (params, is_valid): to the caller of
\* find_valid_initial_params, or to lax.map in initialize_model
SearchReturns(params, is_valid) ==
    [call EXCEPT !.init_params = Append(@, params),
                 !.is_valid = Append(@, is_valid),
                 !.state = NoState,
                 !.pc = IF call.fn = "find_valid_initial_params" THEN "return"
                        ELSE IF call.ch < Len(call.rng_key) THEN "chain"
                        ELSE "check",
                 !.ch = IF call.fn = "initialize_model" /\ call.ch < Len(call.rng_key)
                        THEN @ + 1 ELSE @]

\* Mutant of ChainKey: every chain is handed the first key of the batch.
ChainKeyFirst(rng_key, ch) == rng_key[1]

\* the key single_chain_init is called with for chain ch (the whole rng_key
\* when it is one key, its ch-th row under lax.map)
ChainKey(rng_key, ch) == rng_key[ch]

\* find_valid_initial_params with prototype_params: init_state is set
FindWithPrototype ==
    /\ call.pc = "chain" /\ call.has_prototype
    /\ call' = [call EXCEPT !.pc = "loop",
                   !.state = PrototypeState(ChainKey(call.rng_key, call.ch), call.prototype_params)]
    /\ ghost' = [ghost EXCEPT !.chains = Append(@, NewSearch(ChainKey(call.rng_key, call.ch)))]
    /\ UNCHANGED <<pe, rets, pred, cens>>

\* find_valid_initial_params without: the first trial, returned at once when it
\* is valid and is_valid is a concrete value
FindFirstTrial ==
    /\ call.pc = "chain" /\ ~call.has_prototype
    /\ \E first \in {FirstTrialState(ChainKey(call.rng_key, call.ch))} :
       \E init_state \in {body_fn(first, call.m, call.radius, call.param_as_improper)} :
           /\ ghost' = [ghost EXCEPT !.chains =
                  Append(@, Evaluated(NewSearch(ChainKey(call.rng_key, call.ch)), first, init_state))]
           /\ IF ~call.traced /\ init_state.is_valid
              THEN call' = SearchReturns(init_state.params, init_state.is_valid)
              ELSE call' = [call EXCEPT !.pc = "loop", !.state = init_state]
    /\ UNCHANGED <<pe, rets, pred, cens>>

\* one turn of while_loop(cond_fn, body_fn, init_state)
LoopBody ==
    /\ call.pc = "loop" /\ cond_fn(call.state)
    /\ \E next \in {body_fn(call.state, call.m, call.radius, call.param_as_improper)} :
           /\ call' = [call EXCEPT !.state = next]
           /\ ghost' = [ghost EXCEPT !.chains[call.ch] = Evaluated(@, call.state, next)]
    /\ UNCHANGED <<pe, rets, pred, cens>>

\* the loop ends: return init_params, is_valid
LoopExit ==
    /\ call.pc = "loop" /\ ~cond_fn(call.state)
    /\ call' = SearchReturns(call.state.params, call.state.is_valid)
    /\ UNCHANGED <<pe, ghost, rets, pred, cens>>

\* Mutant of ConstrainFun: always the pure transform application.
ConstrainFunAlwaysPure(has_transformed_dist) == "transform_fn"

\* constrain_fun: constrain_fn if has_transformed_dist, else transform_fn
ConstrainFun(has_transformed_dist) ==
    IF has_transformed_dist THEN "constrain_fn" ELSE "transform_fn"

Result(raised) ==
    [fn |-> call.fn, raised |-> raised, traced |-> call.traced,
     rng_key |-> call.rng_key,
     tried |-> [c \in DOMAIN ghost.chains |-> ghost.chains[c].last.is_valid],
     init_params |-> IF raised THEN <<>> ELSE call.init_params,
     is_valid |-> IF raised \/ call.fn = "initialize_model" THEN <<>> ELSE call.is_valid,
     inv_transforms |-> IF raised THEN <<>> ELSE call.inv_transforms,
     constrain_fun |-> IF raised \/ call.fn # "initialize_model" THEN "none"
                       ELSE ConstrainFun(call.has_transformed_dist)]

\* the caller of find_valid_initial_params gets (init_params, is_valid)
FindValidInitialParamsReturn ==
    /\ call.pc = "return"
    /\ rets' = Append(rets, Result(FALSE))
    /\ call' = [call EXCEPT !.pc = "finished"]
    /\ UNCHANGED <<pe, ghost, pred, cens>>

\* Mutant of MustRaise: raises only when no chain is valid.
MustRaiseWhenNone(traced, is_valid) ==
    ~traced /\ ~(\E c \in DOMAIN is_valid : is_valid[c])

\* if not_jax_tracer(is_valid): if device_get(~np.all(is_valid)): raise
MustRaise(traced, is_valid) ==
    ~traced /\ ~(\A c \in DOMAIN is_valid : is_valid[c])

InitializeModelRaise ==
    /\ call.pc = "check" /\ MustRaise(call.traced, call.is_valid)
    /\ rets' = Append(rets, Result(TRUE))
    /\ call' = [call EXCEPT !.pc = "finished"]
    /\ UNCHANGED <<pe, ghost, pred, cens>>

InitializeModelReturn ==
    /\ call.pc = "check" /\ ~MustRaise(call.traced, call.is_valid)
    /\ rets' = Append(rets, Result(FALSE))
    /\ call' = [call EXCEPT !.pc = "finished"]
    /\ UNCHANGED <<pe, ghost, pred, cens>>

\* the caller calls initialize_model again with the key batch permuted
CallPermuted ==
    /\ call.pc = "finished" /\ call.batched /\ call.run = 1
    /\ call' = [NewCall(call.fn, call.m, call.radius, call.traced, TRUE,
                        [i \in DOMAIN call.rng_key |-> call.rng_key[call.perm[i]]],
                        call.perm, TRUE, TRUE)
                  EXCEPT !.run = 2]
    /\ ghost' = NewGhost
    /\ UNCHANGED <<pe, rets, pred, cens>>

NextInit ==
    \/ InitializeModelTrace
    \/ FindValidInitialParamsCall
    \/ FindWithPrototype
    \/ FindFirstTrial
    \/ LoopBody
    \/ LoopExit
    \/ FindValidInitialParamsReturn
    \/ InitializeModelRaise
    \/ InitializeModelReturn
    \/ CallPermuted

SpecInit == InitInit /\ [][NextInit]_vars

-----------------------------------------------------------------------------
(* Properties of find_valid_initial_params and initialize_model (SpecInit) *)

Searches == IF ghost.pc = "run" THEN DOMAIN ghost.chains ELSE {}

\* the searches of the running call that have returned
Returned == IF call.pc = "idle" THEN {} ELSE DOMAIN call.init_params

\* the inverse transforms body_fn resolves for m
BodyTransformsOf(m, param_as_improper) ==
    BodyResolve(GetTrace(m, NoValues, FALSE, UnitDraws(m)), param_as_improper).inv_transforms

\* C1: in one call of find_valid_initial_params body_fn is evaluated at most
\* 100 times, the first trial outside the loop included; no evaluation follows
\* a valid candidate or the 100th evaluation; and a search returns only after
\* a valid candidate or the 100th evaluation.
C1_BodyEvaluatedAtMostCapTimes ==
    /\ \A c \in Searches :
          ghost.chains[c].n <= 100 /\ ~ghost.chains[c].after_stop
    /\ \A c \in Returned :
          ghost.chains[c].n = 100 \/ ghost.chains[c].last.is_valid

\* C1 witness: a direct call without prototype has returned after exactly 100
\* evaluations, none of them valid
C1_Witness ==
    /\ call.pc = "finished" /\ call.fn = "find_valid_initial_params"
    /\ ~call.has_prototype
    /\ ghost.chains[1].n = 100 /\ ~ghost.chains[1].last.is_valid

\* C2: a search that returns is_valid = true returns the candidate on which
\* the validity predicate was true, and re-evaluating the predicate on it gives
\* true again; a search that returns is_valid = false returns the last
\* candidate, the 100th.
C2_ReturnsTheCandidateJudged ==
    \A c \in Returned :
        LET g == ghost.chains[c]
        IN  /\ g.n >= 1
            /\ call.init_params[c] = g.last.params
            /\ call.is_valid[c] = g.last.is_valid
            /\ call.is_valid[c] =>
                  IsValidAt(call.m, BodyTransformsOf(call.m, call.param_as_improper),
                            call.init_params[c])
            /\ ~call.is_valid[c] => g.n = 100

\* C2 witness: of two searches of one call, one returned a valid candidate
\* found after an invalid one, the other the 100th, invalid candidate
C2_Witness ==
    /\ call.pc = "finished"
    /\ \E c, d \in Returned :
          /\ call.is_valid[c] /\ ghost.chains[c].n >= 2
          /\ ~call.is_valid[d] /\ ghost.chains[d].n = 100

\* C3: initialize_model raises, and returns nothing, exactly when is_valid is a
\* concrete value and some chain's search ended invalid; otherwise it returns
\* the parameters of every chain.
C3_RaisesIffEagerAndSomeChainInvalid ==
    \A i \in DOMAIN rets :
        rets[i].fn = "initialize_model" =>
            /\ rets[i].raised <=>
                  (~rets[i].traced /\ \E c \in DOMAIN rets[i].tried : ~rets[i].tried[c])
            /\ rets[i].raised => rets[i].init_params = <<>>
            /\ ~rets[i].raised => Len(rets[i].init_params) = Len(rets[i].rng_key)

\* C3 witness: a call raised although one of its chains was valid
C3_Witness ==
    \E i \in DOMAIN rets :
        /\ rets[i].fn = "initialize_model" /\ rets[i].raised
        /\ \E c, d \in DOMAIN rets[i].tried : rets[i].tried[c] /\ ~rets[i].tried[d]

\* key b is key a after taking the first half of a split zero or more times
IsCarriedFrom(a, b) == b.root = a.root /\ b.runs = a.runs /\ b.tail >= a.tail

SubkeysDisjoint(c, d) == ghost.chains[c].subkeys \cap ghost.chains[d].subkeys = {}

SearchSplitsEachTime(c) ==
    ghost.chains[c].split_each
        /\ Cardinality(ghost.chains[c].subkeys) = ghost.chains[c].n

C6_PrototypeSeedNotHandedToSearch ==
    \A c \in Searches :
        call.fn = "initialize_model" => ghost.chains[c].key # ghost.proto_seed

\* C7: initialize_model called with the key batch permuted returns the same
\* permutation of the initial parameters (or raises when the first call did).
C7_PermutedBatchPermutesResults ==
    (call.pc = "finished" /\ call.run = 2) =>
        /\ Len(rets) = 2
        /\ rets[2].raised = rets[1].raised
        /\ \A i \in DOMAIN rets[2].init_params :
              rets[2].init_params[i] = rets[1].init_params[call.perm[i]]

\* C7 witness: both calls returned, the permutation moves a chain, and two
\* chains have different initial parameters
C7_Witness ==
    /\ call.pc = "finished" /\ call.run = 2 /\ Len(rets) = 2
    /\ ~rets[1].raised
    /\ \E i \in DOMAIN call.perm :
          /\ call.perm[i] # i
          /\ rets[1].init_params[i] # rets[1].init_params[call.perm[i]]
    /\ \E i, j \in DOMAIN rets[1].init_params :
          rets[1].init_params[i] # rets[1].init_params[j]

\* the supplied prototype of the running call passes body_fn's validity test
PrototypeIsValid ==
    /\ call.pc \notin {"idle", "start"} /\ call.has_prototype
    /\ IsValidAt(call.m, BodyTransformsOf(call.m, call.param_as_improper),
                 call.prototype_params)

\* C11 as stated: under eager evaluation a supplied prototype that is already
\* valid is returned at once with is_valid = true, no candidate being drawn.
C11_ValidPrototypeReturnedAtOnce ==
    (~call.traced /\ PrototypeIsValid) =>
        /\ \A c \in Searches : ghost.chains[c].n = 0
        /\ \A c \in Returned :
              call.init_params[c] = call.prototype_params /\ call.is_valid[c]

\* C11 amended: a supplied prototype that is already valid is not returned at
\* once; the search enters the loop, draws at least one candidate and returns
\* a candidate it drew, judged on its own.
C11_ValidPrototypeStillSearched ==
    PrototypeIsValid =>
        \A c \in Returned :
            /\ ghost.chains[c].n >= 1
            /\ call.init_params[c] = ghost.chains[c].last.params
            /\ call.is_valid[c] = ghost.chains[c].last.is_valid

\* C11 witness: an eager search given a valid prototype returned other
\* parameters than the prototype
C11_Witness ==
    /\ ~call.traced /\ PrototypeIsValid
    /\ \E c \in Returned :
          call.init_params[c] # call.prototype_params /\ ghost.chains[c].n >= 1

-----------------------------------------------------------------------------
(* Specification SpecParam: the same calls on models with constrained      *)
(* param sites and transformed priors                                      *)

\* p = param("p", 2, constraint=positive); x ~ Normal(0, 1); obs ~ Normal(x, 1)
ParamPositive ==
    << ParamSite("p", "positive", <<2>>), SampleSite("x", "Normal", 0, 1),
       ObservedSite("obs", "Normal", 2, <<1>>) >>

\* q = param("q", 3, constraint=greater_than(1)); x ~ Normal(0, 1);
\* obs ~ Normal(x, 1)
ParamComposed ==
    << ParamSite("q", "greater_than_1", <<3>>), SampleSite("x", "Normal", 0, 1),
       ObservedSite("obs", "Normal", 2, <<1>>) >>

\* z ~ TransformedDistribution(Normal(0, 1), ExpTransform()); y ~ Normal(z, 1)
TransformedPrior ==
    << Transformed(SampleSite("z", "Normal", 0, 1), "exp"),
       ObservedSite("y", "Normal", 1, <<1>>) >>

ParamModels ==
    {ParamPositive, ParamComposed, TransformedPrior, SearchNormal, SearchPareto,
     SearchUniform}

InitParam ==
    /\ \E m \in ParamModels, radius \in Radii, traced \in BOOLEAN :
          \/ \E k \in 1..NumRoots :
                call = NewCall("initialize_model", m, radius, traced, FALSE,
                               <<RootKey(k)>>, <<1>>, TRUE, TRUE)
          \/ \E perm \in Perms(MaxChains) :
                call = NewCall("initialize_model", m, radius, traced, TRUE,
                               [i \in 1..MaxChains |-> RootKey(i)], perm, TRUE, TRUE)
          \/ \E proto \in BOOLEAN, pai \in BOOLEAN :
                call = NewCall("find_valid_initial_params", m, radius, traced, FALSE,
                               <<RootKey(1)>>, <<1>>, proto, pai)
    /\ ghost = NewGhost /\ rets = <<>>
    /\ pe = Idle /\ pred = Idle /\ cens = Idle

SpecParam == InitParam /\ [][NextInit]_vars

\* some latent sample site of m has a TransformedDistribution as its prior
HasTransformedPrior(m) == \E i \in DOMAIN m : IsLatent(m[i]) /\ m[i].dtransform # "none"

\* some param site of m declares a constraint whose bijection is composed
HasComposedParam(m) ==
    \E i \in DOMAIN m : m[i].type = "param" /\ m[i].constraint = "greater_than_1"

\* initialize_model has returned without raising
InitializeModelReturned ==
    /\ call.pc = "finished" /\ call.fn = "initialize_model"
    /\ Len(rets) >= 1 /\ ~rets[Len(rets)].raised

\* C12 as stated: initialize_model returns constrain_fn exactly when some
\* latent sample site's prior is a transformed distribution; otherwise, also
\* with a param site of composed constraint, it returns transform_fn.
C12_ConstrainFnIffTransformedPrior ==
    InitializeModelReturned =>
        /\ rets[Len(rets)].constrain_fun \in {"constrain_fn", "transform_fn"}
        /\ (rets[Len(rets)].constrain_fun = "constrain_fn") = HasTransformedPrior(call.m)

\* C12 amended: initialize_model returns constrain_fn exactly when some latent
\* sample site's prior is a transformed distribution or some param site's
\* constraint has a composed bijection; otherwise it returns transform_fn.
C12_ConstrainFnIffTransformedOrComposed ==
    InitializeModelReturned =>
        /\ rets[Len(rets)].constrain_fun \in {"constrain_fn", "transform_fn"}
        /\ (rets[Len(rets)].constrain_fun = "constrain_fn") =
              (HasTransformedPrior(call.m) \/ HasComposedParam(call.m))

\* C12 witness: a model without transformed prior whose param site has a
\* composed constraint got constrain_fn
C12_Witness ==
    /\ InitializeModelReturned
    /\ ~HasTransformedPrior(call.m) /\ HasComposedParam(call.m)
    /\ rets[Len(rets)].constrain_fun = "constrain_fn"

\* C13: the inverse transforms an evaluation of body_fn resolves, param sites
\* included, are those initialize_model stored for potential_fn and
\* constrain_fun.
C13_BodyResolvesTheStoredTransforms ==
    \A c \in Searches :
        (call.fn = "initialize_model" /\ ghost.chains[c].n >= 1) =>
            ghost.chains[c].inv_transforms = call.inv_transforms

-----------------------------------------------------------------------------
(* Specification SpecPred: predictive *)

\* posterior batches hold at most MaxSamples draws
MaxSamples == 2

None == [is_none |-> TRUE, v |-> 0]
Some(v) == [is_none |-> FALSE, v |-> v]
\* return_sites=None
AllSites == [is_none |-> TRUE, v |-> {}]

\* x ~ Normal(0, 1); z ~ Exponential(1); y ~ Normal(x, 1)
PredModel ==
    << PlateSite("N", 1), SampleSite("x", "Normal", 0, 1),
       SampleSite("z", "Exponential", 0, 1), SampleSite("y", "Normal", 2, 1) >>

\* posterior samples of the sites in names: n draws of each
Posterior(names, n) == [k \in names |-> [i \in 1..n |-> <<i>>]]

\* random.split(key, num): num keys, those of Split when num = 2
SplitN(key, num) ==
    IF num = 2 THEN Split(key)
    ELSE [j \in 1..num |-> [root |-> key.root, runs |-> key.runs \o <<key.tail, num>>,
                            tail |-> j]]

\* tree_flatten(posterior_samples)[0][0].shape[0]: the leading dimension of the
\* first leaf (the dict's keys in sorted order; here x before z)
BatchSize(posterior_samples) ==
    IF "x" \in DOMAIN posterior_samples THEN Len(posterior_samples["x"])
    ELSE Len(posterior_samples[CHOOSE k \in DOMAIN posterior_samples : TRUE])

\* Mutant of NumSamples: an explicit num_samples is kept.
NumSamplesExplicitKept(posterior_samples, num_samples) ==
    IF DOMAIN posterior_samples # {} /\ num_samples.is_none
    THEN Some(BatchSize(posterior_samples))
    ELSE num_samples

\* num_samples after "if posterior_samples: ... num_samples = batch_size"
NumSamples(posterior_samples, num_samples) ==
    IF DOMAIN posterior_samples # {}
    THEN Some(BatchSize(posterior_samples))
    ELSE num_samples

\* the warning of the same block
Warns(posterior_samples, num_samples) ==
    /\ DOMAIN posterior_samples # {}
    /\ ~num_samples.is_none /\ num_samples.v # BatchSize(posterior_samples)

\* single_prediction(rng_key, samples)
single_prediction(m, return_sites, rng_key, samples) ==
    LET Pick(model_trace) ==
            LET sites == IF ~return_sites.is_none THEN return_sites.v
                         ELSE {model_trace[i].name : i \in
                                  {i \in DOMAIN model_trace :
                                      /\ model_trace[i].type # "plate"
                                      /\ model_trace[i].name \notin DOMAIN samples}}
            IN  [k \in sites \cap {model_trace[i].name : i \in DOMAIN model_trace} |->
                    SiteNamed(model_trace, k).value]
    IN  Pick(GetTrace(m, samples, FALSE, SeededDraws(m, rng_key)))

InitPred ==
    /\ \E r \in 1..2, names \in {{}, {"x"}, {"x", "z"}}, n \in 1..MaxSamples,
          num \in {None} \cup {Some(v) : v \in 0..(MaxSamples + 1)},
          ret \in {AllSites, Some({"y"}), Some({"x", "y"})} :
          pred = [pc |-> "call", rng_key |-> RootKey(r),
                  posterior_samples |-> Posterior(names, n),
                  num_samples |-> num, asked |-> num, return_sites |-> ret,
                  warned |-> FALSE, rng_keys |-> <<>>, split |-> FALSE,
                  executed |-> 0, result |-> <<>>]
    /\ pe = Idle /\ call = Idle /\ ghost = Idle /\ rets = <<>> /\ cens = Idle

\* predictive, the block "if posterior_samples:"
PredictiveBatchSize ==
    /\ pred.pc = "call"
    /\ pred' = [pred EXCEPT
           !.pc = "sized",
           !.warned = Warns(pred.posterior_samples, pred.num_samples),
           !.num_samples = NumSamples(pred.posterior_samples, pred.num_samples)]
    /\ UNCHANGED <<pe, call, ghost, rets, cens>>

\* if num_samples is None: raise ValueError
PredictiveRaise ==
    /\ pred.pc = "sized" /\ pred.num_samples.is_none
    /\ pred' = [pred EXCEPT !.pc = "raised"]
    /\ UNCHANGED <<pe, call, ghost, rets, cens>>

\* rng_keys = random.split(rng_key, num_samples)
PredictiveSplit ==
    /\ pred.pc = "sized" /\ ~pred.num_samples.is_none
    /\ pred' = [pred EXCEPT !.pc = "split", !.split = TRUE,
                            !.rng_keys = SplitN(pred.rng_key, pred.num_samples.v)]
    /\ UNCHANGED <<pe, call, ghost, rets, cens>>

\* return vmap(single_prediction)(rng_keys, posterior_samples)
PredictiveMap ==
    /\ pred.pc = "split"
    /\ pred' = [pred EXCEPT
           !.pc = "returned",
           !.executed = Len(pred.rng_keys),
           !.result = [i \in DOMAIN pred.rng_keys |->
                          single_prediction(PredModel, pred.return_sites, pred.rng_keys[i],
                              [k \in DOMAIN pred.posterior_samples |->
                                  pred.posterior_samples[k][i]])]]
    /\ UNCHANGED <<pe, call, ghost, rets, cens>>

NextPred ==
    \/ PredictiveBatchSize
    \/ PredictiveRaise
    \/ PredictiveSplit
    \/ PredictiveMap

SpecPred == InitPred /\ [][NextPred]_vars

\* C8: with posterior samples predictive draws as many times as their leading
\* batch size, warning (and still returning) when an explicit num_samples
\* differs; without, it draws num_samples times; without either it raises
\* before any key is split or the model is executed.
C8_NumberOfDraws ==
    LET given == pred.posterior_samples
        explicit == pred.asked
    IN  /\ pred.pc \in {"raised", "returned"} =>
              /\ (pred.pc = "raised") = (DOMAIN given = {} /\ explicit.is_none)
              /\ pred.warned =
                     (DOMAIN given # {} /\ ~explicit.is_none /\ explicit.v # Len(given["x"]))
        /\ pred.pc = "raised" => ~pred.split /\ pred.executed = 0 /\ pred.result = <<>>
        /\ pred.pc = "returned" =>
              /\ pred.split /\ pred.executed = Len(pred.result)
              /\ DOMAIN given # {} => Len(pred.result) = Len(given["x"])
              /\ DOMAIN given = {} => Len(pred.result) = explicit.v

\* C8 witness: predictive warned and returned one result per posterior draw
C8_Witness ==
    /\ pred.pc = "returned" /\ pred.warned
    /\ Len(pred.result) = Len(pred.posterior_samples["x"])
    /\ Len(pred.result) > pred.asked.v

-----------------------------------------------------------------------------
(* Specification SpecCens: RightCensoredDistribution *)

\* batches of a censored distribution hold at most MaxBatch positions
MaxBatch == 3
\* values handed to log_prob lie in 1..VMax
VMax == 2

\* a base distribution: an exponential family of the given rates whose cdf
\* attribute is "absent", "unimplemented" (present, raising NotImplementedError
\* when called) or "implemented", and whose support is the object
\* constraints.positive ("positive"), another constraint of the positive reals
\* ("greater_than_0") or "real"
BaseDist(rate, cdf, support) == [rate |-> rate, cdf |-> cdf, support |-> support]

\* hasattr(base_dist, "cdf")
HasAttrCdf(base_dist) == base_dist.cdf # "absent"

\* base_dist.support is constraints.positive
SupportIsPositive(base_dist) == base_dist.support = "positive"

\* lax.broadcast_shapes of two one-dimensional shapes
CanBroadcast(a, b) == a = b \/ a = 1 \/ b = 1
BroadcastLen(a, b) == IF a >= b THEN a ELSE b

\* the element of a at position i of a broadcast result
At(a, i) == IF Len(a) = 1 THEN a[1] ELSE a[i]

\* base_dist.log_prob(value) of the exponential family, logarithms to base 2
BaseLogProb(base_dist, value) ==
    [i \in 1..BroadcastLen(Len(base_dist.rate), Len(value)) |->
        Fin(ILog2(At(base_dist.rate, i)) - At(base_dist.rate, i) * At(value, i))]

\* base_dist.cdf(value): 1 - 2^(-rate * value), held by the exponent
BaseCdf(base_dist, value) ==
    [i \in 1..BroadcastLen(Len(base_dist.rate), Len(value)) |->
        [one_minus_pow2_neg |-> At(base_dist.rate, i) * At(value, i)]]

\* jnp.log1p(-c) of c = 1 - 2^(-e)
Log1pNeg(c) == Fin(0 - c.one_minus_pow2_neg)

\* logS(x)
logS(base_dist, x) ==
    LET Each(c) == [i \in DOMAIN c |-> Log1pNeg(c[i])]
    IN  Each(BaseCdf(base_dist, x))

\* a.any()
AnyTrue(a) == \E i \in DOMAIN a : a[i] # 0

\* jnp.where(cond, x, 0.0)
Where(cond, x) ==
    [i \in 1..BroadcastLen(Len(cond), Len(x)) |->
        IF At(cond, i) # 0 THEN At(x, i) ELSE Fin(0)]

\* out + term
AddArrays(out, term) ==
    [i \in 1..BroadcastLen(Len(out), Len(term)) |-> ExtAdd(At(out, i), At(term, i))]

\* Mutant of Censored: the censored mask is the event mask.
CensoredAsEvent(event) == event

\* 1 - self.event
Censored(event) == [i \in DOMAIN event |-> 1 - event[i]]

\* the positions a mask selects, in a batch of n
Selected(mask, n) == {i \in 1..n : At(mask, i) # 0}

CdfKinds == {"absent", "unimplemented", "implemented"}
Supports == {"positive", "greater_than_0", "real"}
Rates(n) == [i \in 1..n |-> 1 + (i % 2)]
Events == UNION {[1..n -> {0, 1}] : n \in 1..MaxBatch}
Values(n) == {<<v>> : v \in 1..VMax} \cup [1..n -> 1..VMax]

InitCens ==
    /\ \E cdf \in CdfKinds, support \in Supports, n \in 1..MaxBatch, event \in Events :
          cens = [pc |-> "new", base_dist |-> BaseDist(Rates(n), cdf, support),
                  event |-> event, batch_shape |-> 0, value |-> <<>>, out |-> <<>>,
                  error |-> "none", terms |-> <<>>]
    /\ pe = Idle /\ call = Idle /\ ghost = Idle /\ rets = <<>> /\ pred = Idle

\* __init__ stopped by one of its two assertions
ConstructAssertionError ==
    /\ cens.pc = "new"
    /\ ~HasAttrCdf(cens.base_dist) \/ ~SupportIsPositive(cens.base_dist)
    /\ cens' = [cens EXCEPT !.pc = "rejected", !.error = "AssertionError"]
    /\ UNCHANGED <<pe, call, ghost, rets, pred>>

\* __init__ stopped by lax.broadcast_shapes
ConstructShapeError ==
    /\ cens.pc = "new"
    /\ HasAttrCdf(cens.base_dist) /\ SupportIsPositive(cens.base_dist)
    /\ ~CanBroadcast(Len(cens.base_dist.rate), Len(cens.event))
    /\ cens' = [cens EXCEPT !.pc = "rejected", !.error = "ValueError"]
    /\ UNCHANGED <<pe, call, ghost, rets, pred>>

\* __init__ running to its end
Construct ==
    /\ cens.pc = "new"
    /\ HasAttrCdf(cens.base_dist) /\ SupportIsPositive(cens.base_dist)
    /\ CanBroadcast(Len(cens.base_dist.rate), Len(cens.event))
    /\ cens' = [cens EXCEPT
           !.pc = "constructed",
           !.batch_shape = BroadcastLen(Len(cens.base_dist.rate), Len(cens.event))]
    /\ UNCHANGED <<pe, call, ghost, rets, pred>>

\* log_prob(value): out = jnp.zeros(self.batch_shape)
LogProbZeros ==
    /\ cens.pc = "constructed"
    /\ \E value \in Values(cens.batch_shape) :
          cens' = [cens EXCEPT
              !.pc = "observed", !.value = value,
              !.out = [i \in 1..cens.batch_shape |-> Fin(0)],
              !.terms = [i \in 1..cens.batch_shape |-> {}]]
    /\ UNCHANGED <<pe, call, ghost, rets, pred>>

\* if self.event.any(): out = out + jnp.where(self.event, log_prob(value), 0.0)
LogProbObserved ==
    /\ cens.pc = "observed"
    /\ cens' = IF AnyTrue(cens.event)
               THEN [cens EXCEPT
                        !.pc = "censored",
                        !.out = AddArrays(cens.out,
                                    Where(cens.event, BaseLogProb(cens.base_dist, cens.value))),
                        !.terms = [i \in DOMAIN cens.terms |->
                                      IF i \in Selected(cens.event, cens.batch_shape)
                                      THEN cens.terms[i] \cup {"log_prob"}
                                      ELSE cens.terms[i]]]
               ELSE [cens EXCEPT !.pc = "censored"]
    /\ UNCHANGED <<pe, call, ghost, rets, pred>>

\* if (1 - self.event).any(): logS(value) calls a cdf that is not implemented
LogProbCdfError ==
    /\ cens.pc = "censored"
    /\ AnyTrue(Censored(cens.event)) /\ cens.base_dist.cdf # "implemented"
    /\ cens' = [cens EXCEPT !.pc = "failed", !.error = "NotImplementedError"]
    /\ UNCHANGED <<pe, call, ghost, rets, pred>>

\* if (1 - self.event).any(): out = out + jnp.where(1 - self.event, logS(value), 0.0)
\* return out
LogProbCensored ==
    /\ cens.pc = "censored"
    /\ AnyTrue(Censored(cens.event)) => cens.base_dist.cdf = "implemented"
    /\ cens' = IF AnyTrue(Censored(cens.event))
               THEN [cens EXCEPT
                        !.pc = "returned",
                        !.out = AddArrays(cens.out,
                                    Where(Censored(cens.event),
                                          logS(cens.base_dist, cens.value))),
                        !.terms = [i \in DOMAIN cens.terms |->
                                      IF i \in Selected(Censored(cens.event), cens.batch_shape)
                                      THEN cens.terms[i] \cup {"logS"}
                                      ELSE cens.terms[i]]]
               ELSE [cens EXCEPT !.pc = "returned"]
    /\ UNCHANGED <<pe, call, ghost, rets, pred>>

NextCens ==
    \/ ConstructAssertionError
    \/ ConstructShapeError
    \/ Construct
    \/ LogProbZeros
    \/ LogProbObserved
    \/ LogProbCdfError
    \/ LogProbCensored

SpecCens == InitCens /\ [][NextCens]_vars

\* C9: at every batch position log_prob returns the base log-probability where
\* the event indicator is true and log1p(-cdf(value)) where it is false, and
\* each position receives exactly one of the two terms.
C9_OneTermPerPosition ==
    cens.pc = "returned" =>
        /\ Len(cens.out) = cens.batch_shape
        /\ \A i \in 1..cens.batch_shape :
              /\ At(cens.event, i) = 1 =>
                    /\ cens.out[i] = At(BaseLogProb(cens.base_dist, cens.value), i)
                    /\ cens.terms[i] = {"log_prob"}
              /\ At(cens.event, i) = 0 =>
                    /\ cens.out[i] =
                          Log1pNeg(At(BaseCdf(cens.base_dist, cens.value), i))
                    /\ cens.terms[i] = {"logS"}

\* C9 witness: a returned batch with an observed and a censored position whose
\* two candidate terms differ
C9_Witness ==
    /\ cens.pc = "returned"
    /\ \E i, j \in 1..cens.batch_shape :
          /\ At(cens.event, i) = 1 /\ At(cens.event, j) = 0
          /\ cens.out[i] # At(logS(cens.base_dist, cens.value), i)
          /\ cens.out[j] # At(BaseLogProb(cens.base_dist, cens.value), j)

\* C10: a base distribution that lacks a cumulative distribution function or
\* strictly positive support is rejected by the constructor, and no constructed
\* object fails later, in log_prob, for want of it.
C10_UnsupportedBaseRejectedAtConstruction ==
    /\ cens.pc \notin {"new", "rejected"} =>
          cens.base_dist.cdf = "implemented" /\ cens.base_dist.support # "real"
    /\ cens.pc # "failed"

====
